---- MODULE Spec2Model ----
(***************************************************************************)
(* A model of the Obsidian Ollama RAG plugin (src/main.ts): the in-memory  *)
(* embedding index and its rebuild, the find-related and ask-question      *)
(* commands, the streamed completion client and the agent chat turn.       *)
(*                                                                         *)
(* Strings are sequences of one-character strings, so that startsWith,     *)
(* trim, indexOf, lastIndexOf, slice and split are computed, not assumed.  *)
(* Every await of the source is a point where another callback may run:    *)
(* an async callback is split into one action per segment between awaits.  *)
(***************************************************************************)
EXTENDS Integers, Sequences, FiniteSets, TLC

VARIABLES
    embeddingIndex, \* main.ts:95, the module-level index
    vault,          \* the document store: a sequence of files and folders
    clock,          \* Date.now(), in ticks
    rb,             \* the invocations of 'index-all-notes-for-ai'
    qr,             \* the invocations of 'find-notes-relating-to' / 'ask-ai-about-notes'
    cs,             \* one call of getAICompletion, followed through its stream
    chatHistory,    \* AIAgentChatModal.chatHistory, main.ts:353
    ag              \* the invocations of AIAgentChatModal.handleUserMessage

vars == <<embeddingIndex, vault, clock, rb, qr, cs, chatHistory, ag>>

-----------------------------------------------------------------------------
(* Bounds of the model *)

\* invocations of the rebuild command in one behaviour
MaxRebuilds == 2
\* invocations of find-related / ask-question in one behaviour
MaxQueries == 1
\* the clock stops ticking here
MaxClock == 1

(* Program constants *)

\* main.ts:126  content.length < 50
MinContentLength == 50
\* main.ts:18   text.trim().length < 10
MinEmbedTextLength == 10
\* main.ts:164  scored.slice(0, 10)
RelatedTopK == 10
\* main.ts:206  scored.slice(0, 3)
ContextTopK == 3
\* main.ts:169  n.content.slice(0, 200)
ExcerptLength == 200

-----------------------------------------------------------------------------
(* Strings *)

Str(n, ch) == [i \in 1..n |-> ch]

IsSpace(c) == c \in {" ", "\n", "\t"}

\* String.prototype.startsWith
StartsWith(s, p) == Len(s) >= Len(p) /\ SubSeq(s, 1, Len(p)) = p

\* String.prototype.endsWith
EndsWith(s, p) == Len(s) >= Len(p) /\ SubSeq(s, Len(s) - Len(p) + 1, Len(s)) = p

\* String.prototype.slice(from, to) with 0-based, end-exclusive JS indices
Slice(s, from, to) ==
    LET t == IF to > Len(s) THEN Len(s) ELSE to
    IN  SubSeq(s, from + 1, t)

RECURSIVE TrimStart(_)
TrimStart(s) ==
    IF s = <<>> THEN <<>>
    ELSE IF IsSpace(Head(s)) THEN TrimStart(Tail(s)) ELSE s

RECURSIVE TrimEnd(_)
TrimEnd(s) ==
    IF s = <<>> THEN <<>>
    ELSE IF IsSpace(s[Len(s)]) THEN TrimEnd(SubSeq(s, 1, Len(s) - 1)) ELSE s

\* String.prototype.trim
Trim(s) == TrimEnd(TrimStart(s))

\* the part of a path after its last "/": TFile.name
Basename(p) ==
    LET slashes == {i \in 1..Len(p) : p[i] = "/"}
    IN  IF slashes = {} THEN p
        ELSE SubSeq(p, (CHOOSE i \in slashes : \A j \in slashes : j <= i) + 1, Len(p))

RelatedPrefix == <<"R","e","l","a","t","e","d"," ","N","o","t","e","s"," ","-"," ">>
AnswerPrefix  == <<"A","I"," ","A","n","s","w","e","r"," ","-"," ">>
MdSuffix      == <<".","m","d">>
Dash          == <<" ","-"," ">>

\* n.path.replace(/\.md$/, '')
StripMd(p) == IF EndsWith(p, MdSuffix) THEN SubSeq(p, 1, Len(p) - 3) ELSE p

\* s.replace(/\n/g, ' ')
NewlinesToSpaces(s) == [i \in 1..Len(s) |-> IF s[i] = "\n" THEN " " ELSE s[i]]

-----------------------------------------------------------------------------
(* The document store *)

File(p, c)  == [path |-> p, kind |-> "file", content |-> c]
Folder(p)   == [path |-> p, kind |-> "folder", content |-> <<>>]

\* The notes the vault holds when the plugin is loaded: two generated reports
\* (one of them inside a folder), a note below the length threshold, a note of
\* 58 characters that trims to 3, and two ordinary notes.
InitialVault ==
    << File(RelatedPrefix \o <<"q">> \o MdSuffix, Str(60, "r")),
       File(<<"a">> \o MdSuffix, Str(50, "a")),
       File(<<"s">> \o MdSuffix, Str(49, "s")),
       Folder(<<"d">>),
       File(<<"d","/">> \o AnswerPrefix \o <<"q">> \o MdSuffix, Str(60, "w")),
       File(<<"w">> \o MdSuffix, Str(55, " ") \o <<"w","w","w">>),
       File(<<"b">> \o MdSuffix, Str(60, "b")) >>

\* Vault.getMarkdownFiles
GetMarkdownFiles(v) ==
    SelectSeq(v, LAMBDA e : e.kind = "file" /\ EndsWith(e.path, MdSuffix))

Exists(v, p) == \E i \in 1..Len(v) : v[i].path = p

\* Vault.getAbstractFileByPath: the entity, or a record of kind "none"
Lookup(v, p) ==
    IF Exists(v, p) THEN v[CHOOSE i \in 1..Len(v) : v[i].path = p]
    ELSE [path |-> p, kind |-> "none", content |-> <<>>]

-----------------------------------------------------------------------------
(* The embedding client, getNoteEmbedding *)

\* The vectors the backend returns in the model: two directions, the zero
\* vector, and a vector of another length.
Vectors == { <<1, 0>>, <<1, 1>>, <<0, 0>>, <<1>> }

\* What the call ends with.  "threw" carries the number of notices the client
\* itself raised; "returned" carries the array: its elements, and whether all
\* of them are numbers.
Threw(n)       == [status |-> "threw", numeric |-> FALSE, value |-> <<>>, notices |-> n]
Returned(b, v) == [status |-> "returned", numeric |-> b, value |-> v, notices |-> 0]
NotCalled      == [status |-> "notcalled", numeric |-> FALSE, value |-> <<>>, notices |-> 0]

\* main.ts:18-21: the text is refused before any request is made
TooShortForEmbedding(text) == Len(Trim(text)) < MinEmbedTextLength

\* main.ts:22-42: the request fails (one notice, from the catch), the response
\* carries no array (two notices: line 34 and the catch at line 40), or the
\* array comes back as it is, empty and non-numeric arrays included.
BackendEmbedOutcomes ==
    { Threw(1), Threw(2), Returned(TRUE, <<>>), Returned(FALSE, <<0>>) }
    \cup { Returned(TRUE, v) : v \in Vectors }

EmbedOutcomes(text) ==
    IF TooShortForEmbedding(text) THEN { Threw(1) } ELSE BackendEmbedOutcomes

-----------------------------------------------------------------------------
(* The index and its rebuild: 'index-all-notes-for-ai', main.ts:117-140 *)

Entry(p, c, e) == [path |-> p, content |-> c, embedding |-> e]

\* main.ts:122
ReservedName(name) ==
    StartsWith(name, RelatedPrefix) \/ StartsWith(name, AnswerPrefix)

\* main.ts:126
TooShort(content) == content = <<>> \/ Len(content) < MinContentLength

\* main.ts:131
UsableEmbedding(out) ==
    out.status = "returned" /\ out.numeric /\ Len(out.value) > 0

\* main.ts:119
ClearedIndexMutant(idx) == idx
ClearedIndex(idx) == <<>>

\* The for loop from file i on, up to its next await: files with a reserved
\* name are passed over (main.ts:122-124), each leaving a line in the log.
RECURSIVE SkipReserved(_, _, _)
SkipReserved(files, i, log) ==
    IF i > Len(files) THEN [i |-> i, log |-> log]
    ELSE IF ReservedName(Basename(files[i].path))
         THEN SkipReserved(files, i + 1,
                  Append(log, [path |-> files[i].path, content |-> <<>>, embed |-> NotCalled]))
         ELSE [i |-> i, log |-> log]

IdleRebuild ==
    [pc |-> "idle", files |-> <<>>, i |-> 0, content |-> <<>>, log |-> <<>>,
     overlapped |-> FALSE, notices |-> 0]

RebuildActive(r) == rb[r].pc \in {"read", "embed"}

\* every other invocation that is in flight learns that it was overlapped
MarkOverlap(f, r) ==
    [s \in DOMAIN f |->
        IF s # r /\ f[s].pc \in {"read", "embed"} THEN [f[s] EXCEPT !.overlapped = TRUE]
        ELSE f[s]]

\* the position after file i is done with: the next await, or the end
Advance(r, log, extraNotices) ==
    LET nxt == SkipReserved(rb[r].files, rb[r].i + 1, log)
        fin == nxt.i > Len(rb[r].files)
    IN  [rb[r] EXCEPT !.pc = IF fin THEN "done" ELSE "read",
                      !.i = nxt.i,
                      !.content = <<>>,
                      !.log = nxt.log,
                      !.notices = @ + extraNotices + (IF fin THEN 1 ELSE 0)]

\* main.ts:117-125: notice, clear, enumerate, and run to the first read
StartRebuild(r) ==
    /\ rb[r].pc = "idle"
    /\ \A s \in 1..(r - 1) : rb[s].pc # "idle"
    /\ embeddingIndex' = ClearedIndex(embeddingIndex)
    /\ LET files == GetMarkdownFiles(vault)
           nxt   == SkipReserved(files, 1, <<>>)
           fin   == nxt.i > Len(files)
           me    == [pc |-> IF fin THEN "done" ELSE "read",
                     files |-> files, i |-> nxt.i, content |-> <<>>, log |-> nxt.log,
                     overlapped |-> \E s \in DOMAIN rb : s # r /\ RebuildActive(s),
                     notices |-> IF fin THEN 2 ELSE 1]
       IN  rb' = MarkOverlap([rb EXCEPT ![r] = me], r)
    /\ UNCHANGED <<vault, clock, qr, cs, chatHistory, ag>>

\* main.ts:125-128: the read resolves; a short note is passed over, any other
\* goes to the embedding client
RebuildReadReturns(r) ==
    /\ rb[r].pc = "read"
    /\ LET f == rb[r].files[rb[r].i]
           c == Lookup(vault, f.path).content
       IN  /\ Lookup(vault, f.path).kind = "file"
           /\ IF TooShort(c)
              THEN rb' = [rb EXCEPT ![r] =
                       Advance(r, Append(rb[r].log,
                           [path |-> f.path, content |-> c, embed |-> NotCalled]), 0)]
              ELSE rb' = [rb EXCEPT ![r].pc = "embed", ![r].content = c]
    /\ UNCHANGED <<embeddingIndex, vault, clock, qr, cs, chatHistory, ag>>

\* main.ts:125: the read rejects; nothing catches it and the callback ends
RebuildReadFails(r) ==
    /\ rb[r].pc = "read"
    /\ rb' = [rb EXCEPT ![r].pc = "aborted"]
    /\ UNCHANGED <<embeddingIndex, vault, clock, qr, cs, chatHistory, ag>>

\* main.ts:129-137: the embedding call ends; the entry is pushed, or the note
\* is passed over (silently for an unusable array, with a notice for a throw)
RebuildEmbedReturns(r) ==
    /\ rb[r].pc = "embed"
    /\ \E out \in EmbedOutcomes(rb[r].content) :
          LET f   == rb[r].files[rb[r].i]
              log == Append(rb[r].log,
                        [path |-> f.path, content |-> rb[r].content, embed |-> out])
          IN  /\ embeddingIndex' =
                    IF UsableEmbedding(out)
                    THEN Append(embeddingIndex, Entry(f.path, rb[r].content, out.value))
                    ELSE embeddingIndex
              /\ rb' = [rb EXCEPT ![r] =
                    Advance(r, log,
                        IF out.status = "threw" THEN out.notices + 1 ELSE 0)]
    /\ UNCHANGED <<vault, clock, qr, cs, chatHistory, ag>>

-----------------------------------------------------------------------------
(* The similarity ranker: cosineSimilarity, main.ts:10-15, and the sort *)

RECURSIVE SumTo(_, _)
SumTo(f, n) == IF n = 0 THEN 0 ELSE f[n] + SumTo(f, n - 1)

\* a.reduce((sum, ai, i) => sum + ai * b[i], 0): NaN when b is shorter than a
DotDefined(a, b) == Len(b) >= Len(a)
Dot(a, b) == SumTo([i \in 1..Len(a) |-> a[i] * b[i]], Len(a))
NormSq(a) == SumTo([i \in 1..Len(a) |-> a[i] * a[i]], Len(a))

\* dot / (normA * normB) as the exact number num / sqrt(den); the division is
\* 0 / 0 or NaN / x, that is NaN, when a norm is zero or b is too short.
CosineSimilarity(a, b) ==
    IF ~DotDefined(a, b) \/ NormSq(a) = 0 \/ NormSq(b) = 0
    THEN [nan |-> TRUE, num |-> 0, den |-> 1]
    ELSE [nan |-> FALSE, num |-> Dot(a, b), den |-> NormSq(a) * NormSq(b)]

SignedSq(x) == IF x < 0 THEN 0 - x * x ELSE x * x

\* s < t for two numbers num / sqrt(den)
ScoreLess(s, t) == SignedSq(s.num) * t.den < SignedSq(t.num) * s.den

\* the comparator (a, b) => b.score - a.score, by its sign; a NaN difference
\* counts as 0 (Array.prototype.sort)
Compare(a, b) ==
    IF a.score.nan \/ b.score.nan THEN 0
    ELSE IF ScoreLess(a.score, b.score) THEN 1
    ELSE IF ScoreLess(b.score, a.score) THEN -1
    ELSE 0

\* main.ts:159-162
Scored(idx, q) ==
    [i \in 1..Len(idx) |->
        [path |-> idx[i].path, content |-> idx[i].content,
         embedding |-> idx[i].embedding,
         score |-> CosineSimilarity(q, idx[i].embedding)]]

\* x goes before the first element that the comparator puts after it
RECURSIVE InsertSorted(_, _)
InsertSorted(x, s) ==
    IF s = <<>> THEN <<x>>
    ELSE IF Compare(Head(s), x) > 0 THEN <<x>> \o s
    ELSE <<Head(s)>> \o InsertSorted(x, Tail(s))

RECURSIVE StableSort(_)
StableSort(s) ==
    IF s = <<>> THEN <<>>
    ELSE InsertSorted(s[Len(s)], StableSort(SubSeq(s, 1, Len(s) - 1)))

\* "equal" is transitive: what sort needs of a comparator to define the order
ConsistentComparator(s) ==
    \A i, j, k \in 1..Len(s) :
        Compare(s[i], s[j]) = 0 /\ Compare(s[j], s[k]) = 0 => Compare(s[i], s[k]) = 0

Reorderings(s) ==
    { [i \in 1..Len(s) |-> s[p[i]]] : p \in Permutations(1..Len(s)) }

\* scored.sort(...): the stable sorted order; with an inconsistent comparator
\* the order is implementation-defined, any permutation
SortOutcomes(s) ==
    IF ConsistentComparator(s) THEN { StableSort(s) } ELSE Reorderings(s)

-----------------------------------------------------------------------------
(* The reports *)

\* n.score.toFixed(2), in hundredths
ScoreText(s) ==
    IF s.nan THEN "NaN"
    ELSE ToString(CHOOSE m \in -100..100 :
            /\ SignedSq(2 * m - 1) * s.den <= SignedSq(200 * s.num)
            /\ SignedSq(200 * s.num) < SignedSq(2 * m + 1) * s.den)

\* main.ts:167-169, 219-221
RECURSIVE Blocks(_, _, _)
Blocks(top, i, heading) ==
    IF i > Len(top) THEN <<>>
    ELSE <<heading, ToString(i), ". [[">> \o StripMd(top[i].path)
         \o <<"]] (Score: ", ScoreText(top[i].score), "/100)\n", "> ">>
         \o NewlinesToSpaces(Slice(top[i].content, 0, ExcerptLength))
         \o <<"...\n\n">> \o Blocks(top, i + 1, heading)

\* main.ts:165-170
RelatedReport(query, top) ==
    <<"# Top Related Notes for: ">> \o query \o <<"\n\n">> \o Blocks(top, 1, "## ")

\* main.ts:215-222
AnswerReport(question, answer, top) ==
    <<"# AI Answer to: ">> \o question \o <<"\n\n", "## Answer\n">> \o answer
    \o <<"\n\n", "## Top Relevant Notes\n">> \o Blocks(top, 1, "### ")

\* main.ts:173, 225
ReportName(kind, query, now) ==
    (IF kind = "related" THEN RelatedPrefix ELSE AnswerPrefix)
    \o query \o Dash \o <<ToString(now)>> \o MdSuffix

-----------------------------------------------------------------------------
(* 'find-notes-relating-to', main.ts:146-182, and 'ask-ai-about-notes',      *)
(* main.ts:188-233                                                         *)

Kinds == {"related", "ask"}

TopK(kind) == IF kind = "related" THEN RelatedTopK ELSE ContextTopK

\* what promptUser resolves with: null, or the text of the textarea
NoInput     == [given |-> FALSE, text |-> <<>>]
Input(t)    == [given |-> TRUE, text |-> t]
LongQuery   == <<"h","i","g","h"," ","s","c","h","o","o","l">>
PromptResults == { NoInput, Input(<<>>), Input(<<"h","i">>), Input(LongQuery) }

\* what getAICompletion ends with, seen from its caller
CompletionThrew       == [status |-> "threw", text |-> <<>>]
CompletionReturned(t) == [status |-> "returned", text |-> t]
CompletionOutcomes ==
    { CompletionThrew, CompletionReturned(<<>>), CompletionReturned(<<"ok">>) }

IdleQuery ==
    [pc |-> "idle", kind |-> "related", query |-> <<>>,
     queryEmbedding |-> <<>>, ranked |-> FALSE, top |-> <<>>,
     name |-> <<>>, answer |-> <<>>, outcome |-> "none",
     embedCalls |-> 0, completeCalls |-> 0, created |-> 0, notices |-> 0]

\* main.ts:147, 189
IndexIsEmptyMutant(idx) == FALSE
IndexIsEmpty(idx) == Len(idx) = 0

Finish(q, outcome, extraNotices) ==
    [qr[q] EXCEPT !.pc = "done", !.outcome = outcome, !.notices = @ + extraNotices]

\* main.ts:147-151, 189-193: the emptiness check, then the prompt is opened
StartQuery(q, kind) ==
    /\ qr[q].pc = "idle"
    /\ \A s \in 1..(q - 1) : qr[s].pc # "idle"
    /\ IF IndexIsEmpty(embeddingIndex)
       THEN qr' = [qr EXCEPT ![q] = [Finish(q, "IndexEmpty", 1) EXCEPT !.kind = kind]]
       ELSE qr' = [qr EXCEPT ![q].pc = "prompt", ![q].kind = kind]
    /\ UNCHANGED <<embeddingIndex, vault, clock, rb, cs, chatHistory, ag>>

\* main.ts:151-155, 193-197: the prompt resolves; without a query the command
\* ends, with one the embedding client is called
PromptReturns(q) ==
    /\ qr[q].pc = "prompt"
    /\ \E in \in PromptResults :
          IF ~in.given \/ in.text = <<>>
          THEN qr' = [qr EXCEPT ![q] = Finish(q, "NoQuery", 0)]
          ELSE qr' = [qr EXCEPT ![q].pc = "embed", ![q].query = in.text,
                                ![q].embedCalls = @ + 1]
    /\ UNCHANGED <<embeddingIndex, vault, clock, rb, cs, chatHistory, ag>>

QueryEmbedFailsMutant(q) ==
    /\ qr[q].pc = "embed"
    /\ \E out \in EmbedOutcomes(qr[q].query) :
          /\ out.status = "threw"
          /\ qr' = [qr EXCEPT ![q] = [Finish(q, "EmbedFailed", out.notices)
                                          EXCEPT !.completeCalls = @ + 1]]
    /\ UNCHANGED <<embeddingIndex, vault, clock, rb, cs, chatHistory, ag>>

\* main.ts:156-158, 198-200
QueryEmbedFails(q) ==
    /\ qr[q].pc = "embed"
    /\ \E out \in EmbedOutcomes(qr[q].query) :
          /\ out.status = "threw"
          /\ qr' = [qr EXCEPT ![q] = Finish(q, "EmbedFailed", out.notices)]
    /\ UNCHANGED <<embeddingIndex, vault, clock, rb, cs, chatHistory, ag>>

\* main.ts:159-175 and 201-211: score, sort, cut to k; find-related builds its
\* report and asks the vault to create it, ask-question calls the completion
\* client
QueryEmbedReturns(q) ==
    /\ qr[q].pc = "embed"
    /\ \E out \in EmbedOutcomes(qr[q].query) :
          /\ out.status = "returned"
          /\ \E sorted \in SortOutcomes(Scored(embeddingIndex, out.value)) :
                LET top == Slice(sorted, 0, TopK(qr[q].kind))
                IN  IF qr[q].kind = "related"
                    THEN qr' = [qr EXCEPT ![q].pc = "create", ![q].top = top,
                                   ![q].queryEmbedding = out.value, ![q].ranked = TRUE,
                                   ![q].name = ReportName("related", qr[q].query, clock)]
                    ELSE qr' = [qr EXCEPT ![q].pc = "complete", ![q].top = top,
                                   ![q].queryEmbedding = out.value, ![q].ranked = TRUE,
                                   ![q].completeCalls = @ + 1]
    /\ UNCHANGED <<embeddingIndex, vault, clock, rb, cs, chatHistory, ag>>

\* main.ts:209-227: the completion call ends; a throw ends the command, a
\* text (empty or not) goes into the report
QueryCompletionReturns(q) ==
    /\ qr[q].pc = "complete"
    /\ \E out \in CompletionOutcomes :
          IF out.status = "threw"
          THEN qr' = [qr EXCEPT ![q] = Finish(q, "CompletionFailed", 1)]
          ELSE qr' = [qr EXCEPT ![q].pc = "create",
                         ![q].name = ReportName("ask", qr[q].query, clock),
                         ![q].answer = out.text]
    /\ UNCHANGED <<embeddingIndex, vault, clock, rb, cs, chatHistory, ag>>

\* the text handed to vault.create: main.ts:165-170, 215-222
ReportOf(c) ==
    IF c.kind = "related" THEN RelatedReport(c.query, c.top)
    ELSE AnswerReport(c.query, c.answer, c.top)

\* main.ts:172-177, 224-228: the vault creates the report
QueryCreateReturns(q) ==
    /\ qr[q].pc = "create"
    /\ ~Exists(vault, qr[q].name)
    /\ vault' = Append(vault, File(qr[q].name, ReportOf(qr[q])))
    /\ IF qr[q].kind = "related"
       THEN qr' = [qr EXCEPT ![q].pc = "open", ![q].created = @ + 1, ![q].notices = @ + 1]
       ELSE qr' = [qr EXCEPT ![q] = [Finish(q, "Written", 1) EXCEPT !.created = @ + 1]]
    /\ UNCHANGED <<embeddingIndex, clock, rb, cs, chatHistory, ag>>

\* main.ts:178-181, 229-232: the vault refuses (the name is taken, or the
\* write fails)
QueryCreateFails(q) ==
    /\ qr[q].pc = "create"
    /\ qr' = [qr EXCEPT ![q] = Finish(q, "CreateFailed", 1)]
    /\ UNCHANGED <<embeddingIndex, vault, clock, rb, cs, chatHistory, ag>>

\* main.ts:177-181: the report is opened in a new leaf, or that fails
QueryOpenReturns(q) ==
    /\ qr[q].pc = "open"
    /\ \E ok \in BOOLEAN :
          qr' = [qr EXCEPT ![q] =
                    IF ok THEN Finish(q, "Written", 0) ELSE Finish(q, "OpenFailed", 1)]
    /\ UNCHANGED <<embeddingIndex, vault, clock, rb, cs, chatHistory, ag>>

\* time passes
Tick ==
    /\ clock < MaxClock
    /\ clock' = clock + 1
    /\ UNCHANGED <<embeddingIndex, vault, rb, qr, cs, chatHistory, ag>>

-----------------------------------------------------------------------------
(* The completion client, getAICompletion, main.ts:45-93.                  *)
(* The response body is a sequence of JSON tokens, spaces and newlines; a  *)
(* chunk boundary falls between two of them.                               *)

LB  == "{"
RB  == "}"
KEY == "\"response\":"
VA  == "\"a\""
VB  == "\"b\""
VE  == "\"\""
NUL == "null"
JUNK == "x"
NL  == "\n"
SP  == " "

StringTokens == {VA, VB, VE}

\* the text of a JSON string token
TextOf(tok) == IF tok = VA THEN <<"a">> ELSE IF tok = VB THEN <<"b">> ELSE <<>>

\* the JSON texts the model knows: an object with a "response" member, the
\* empty object, a string, null; anything else is a syntax error.  "ok" says
\* that lines 75-76 ran without a throw (JSON.parse succeeded and the value has
\* properties), "response" is data.response where it is a non-empty string.
ParseLine(line) ==
    LET t == SelectSeq(line, LAMBDA c : c # SP)
    IN  IF Len(t) = 4 /\ t[1] = LB /\ t[2] = KEY /\ t[3] \in StringTokens /\ t[4] = RB
             THEN [ok |-> TRUE, response |-> TextOf(t[3])]
        ELSE IF Len(t) = 4 /\ t[1] = LB /\ t[2] = KEY /\ t[3] = NUL /\ t[4] = RB
             THEN [ok |-> TRUE, response |-> <<>>]
        ELSE IF t = <<LB, RB>> THEN [ok |-> TRUE, response |-> <<>>]
        ELSE IF Len(t) = 1 /\ t[1] \in StringTokens THEN [ok |-> TRUE, response |-> <<>>]
        ELSE [ok |-> FALSE, response |-> <<>>]

\* chunk.split('\n')
RECURSIVE Split(_)
Split(chunk) ==
    LET nls == {i \in 1..Len(chunk) : chunk[i] = NL}
    IN  IF nls = {} THEN << chunk >>
        ELSE LET i == CHOOSE k \in nls : \A j \in nls : k <= j
             IN  << SubSeq(chunk, 1, i - 1) >> \o Split(SubSeq(chunk, i + 1, Len(chunk)))

\* main.ts:73
IsBlank(line) == \A i \in 1..Len(line) : line[i] = SP

\* main.ts:73-80, one line: [result, threw]
ProcessLineMutant(acc, line) ==
    IF acc.threw \/ IsBlank(line) THEN acc
    ELSE IF ParseLine(line).ok
         THEN [acc EXCEPT !.result = @ \o ParseLine(line).response]
         ELSE [acc EXCEPT !.threw = TRUE]
ProcessLine(acc, line) ==
    IF IsBlank(line) THEN acc
    ELSE [acc EXCEPT !.result = @ \o ParseLine(line).response]

\* main.ts:72-81, the forEach over the lines of one chunk
RECURSIVE ProcessLines(_, _)
ProcessLines(acc, lines) ==
    IF lines = <<>> THEN acc
    ELSE ProcessLines(ProcessLine(acc, Head(lines)), Tail(lines))

\* lines in a response body
MaxLines == 3

BodyLines ==
    { <<LB, KEY, VA, RB>>, <<SP, LB, KEY, VB, RB>>, <<LB, KEY, VE, RB>>,
      <<LB, RB>>, <<JUNK, LB, KEY, VA, RB>>, <<>> }

RECURSIVE Join(_)
Join(lines) == IF lines = <<>> THEN <<>> ELSE Head(lines) \o <<NL>> \o Join(Tail(lines))

Bodies == UNION { { Join(ls) : ls \in [1..n -> BodyLines] } : n \in 0..MaxLines }

IdleCompletion ==
    [pc |-> "idle", body |-> <<>>, pos |-> 0, result |-> <<>>,
     aligned |-> TRUE, cause |-> "none", notices |-> 0]

\* main.ts:47-55
StartCompletion ==
    /\ cs.pc = "idle"
    /\ cs' = [cs EXCEPT !.pc = "fetch"]
    /\ UNCHANGED <<embeddingIndex, vault, clock, rb, qr, chatHistory, ag>>

\* main.ts:48, 88-92: the request fails
FetchFails ==
    /\ cs.pc = "fetch"
    /\ cs' = [cs EXCEPT !.pc = "threw", !.cause = "transport", !.notices = @ + 1]
    /\ UNCHANGED <<embeddingIndex, vault, clock, rb, qr, chatHistory, ag>>

\* main.ts:57-59, 88-92: the response has no body
FetchWithoutBody ==
    /\ cs.pc = "fetch"
    /\ cs' = [cs EXCEPT !.pc = "threw", !.cause = "nobody", !.notices = @ + 1]
    /\ UNCHANGED <<embeddingIndex, vault, clock, rb, qr, chatHistory, ag>>

\* main.ts:62-65
FetchReturns ==
    /\ cs.pc = "fetch"
    /\ \E body \in Bodies : cs' = [cs EXCEPT !.pc = "reading", !.body = body]
    /\ UNCHANGED <<embeddingIndex, vault, clock, rb, qr, chatHistory, ag>>

\* main.ts:68-83: the reader delivers the next n tokens of the body
ReadChunk ==
    /\ cs.pc = "reading"
    /\ \E n \in 1..(Len(cs.body) - cs.pos) :
          LET chunk == SubSeq(cs.body, cs.pos + 1, cs.pos + n)
              acc   == ProcessLines([result |-> cs.result, threw |-> FALSE], Split(chunk))
              cut   == cs.pos + n < Len(cs.body) /\ cs.body[cs.pos + n] # NL
          IN  IF acc.threw
              THEN cs' = [cs EXCEPT !.pc = "threw", !.cause = "parse", !.notices = @ + 1]
              ELSE cs' = [cs EXCEPT !.pos = @ + n, !.result = acc.result,
                                    !.aligned = @ /\ ~cut]
    /\ UNCHANGED <<embeddingIndex, vault, clock, rb, qr, chatHistory, ag>>

\* main.ts:68, 83-87: the reader reports the end of the body
ReadDone ==
    /\ cs.pc = "reading"
    /\ cs.pos = Len(cs.body)
    /\ cs' = [cs EXCEPT !.pc = "returned"]
    /\ UNCHANGED <<embeddingIndex, vault, clock, rb, qr, chatHistory, ag>>

\* main.ts:68, 88-92: the read rejects
ReadFails ==
    /\ cs.pc = "reading"
    /\ cs' = [cs EXCEPT !.pc = "threw", !.cause = "read", !.notices = @ + 1]
    /\ UNCHANGED <<embeddingIndex, vault, clock, rb, qr, chatHistory, ag>>

-----------------------------------------------------------------------------
(* The agent chat: AIAgentChatModal, main.ts:351-481.                      *)
(* A model response is a sequence of tokens: brackets, commas, spaces,     *)
(* words of prose, and JSON values (an object is one token).               *)

\* user messages in one chat session
MaxTurns == 2
\* elements of an action array the model answers with
MaxActions == 2
\* tokens of prose before and after the array
MaxAffix == 1

LBR == "["
RBR == "]"
COMMA == ","
WORD == "w"
NUM == "7"

Undefined == <<"undefined">>

PathA == <<"a">> \o MdSuffix
PathD == <<"d">>
PathZ == <<"z">>
PathZN == <<"z", "/", "n">> \o MdSuffix

Object(ty, hasPath, p, c) ==
    [kind |-> "object", type |-> ty, hasPath |-> hasPath, path |-> p, content |-> c]
NullValue   == [kind |-> "null", type |-> "", hasPath |-> FALSE, path |-> Undefined, content |-> <<>>]
NumberValue == [kind |-> "number", type |-> "", hasPath |-> FALSE, path |-> Undefined, content |-> <<>>]
ArrayValue  == [kind |-> "array", type |-> "", hasPath |-> FALSE, path |-> Undefined, content |-> <<>>]

\* the JSON objects of the model, each one token of a response
ObjectTokens ==
    { "{create_folder z}", "{create_file z/n.md c}", "{create_file a.md c}",
      "{create_file}", "{delete_file a.md}", "{delete_file d}",
      "{delete_folder d}", "{update_file a.md u}", "{rename a.md}",
      "{delete_file z}", "{update_file d u}", "{update_file z u}",
      "{delete_folder a.md}", "{delete_folder z}" }

ObjectOf(tok) ==
    CASE tok = "{create_folder z}"      -> Object("create_folder", TRUE, PathZ, <<>>)
      [] tok = "{create_file z/n.md c}" -> Object("create_file", TRUE, PathZN, <<"c">>)
      [] tok = "{create_file a.md c}"   -> Object("create_file", TRUE, PathA, <<"c">>)
      [] tok = "{create_file}"          -> Object("create_file", FALSE, Undefined, <<>>)
      [] tok = "{delete_file a.md}"     -> Object("delete_file", TRUE, PathA, <<>>)
      [] tok = "{delete_file d}"        -> Object("delete_file", TRUE, PathD, <<>>)
      [] tok = "{delete_folder d}"      -> Object("delete_folder", TRUE, PathD, <<>>)
      [] tok = "{update_file a.md u}"   -> Object("update_file", TRUE, PathA, <<"u">>)
      [] tok = "{rename a.md}"          -> Object("rename", TRUE, PathA, <<>>)
      [] tok = "{delete_file z}"        -> Object("delete_file", TRUE, PathZ, <<>>)
      [] tok = "{update_file d u}"      -> Object("update_file", TRUE, PathD, <<"u">>)
      [] tok = "{update_file z u}"      -> Object("update_file", TRUE, PathZ, <<"u">>)
      [] tok = "{delete_folder a.md}"   -> Object("delete_folder", TRUE, PathA, <<>>)
      [] tok = "{delete_folder z}"      -> Object("delete_folder", TRUE, PathZ, <<>>)

ValueTokens == ObjectTokens \cup {NUL, NUM}

\* aiResponse.indexOf(ch), 1-based, 0 for -1
IndexOf(s, ch) ==
    LET at == {i \in 1..Len(s) : s[i] = ch}
    IN  IF at = {} THEN 0 ELSE CHOOSE i \in at : \A j \in at : i <= j

\* aiResponse.lastIndexOf(ch), 1-based, 0 for -1
LastIndexOf(s, ch) ==
    LET at == {i \in 1..Len(s) : s[i] = ch}
    IN  IF at = {} THEN 0 ELSE CHOOSE i \in at : \A j \in at : j <= i

ParseFailure == [ok |-> FALSE, val |-> NullValue, items |-> <<>>, next |-> 0]

\* JSON.parse over tokens without spaces: a value at t[i], or the items of an
\* array from t[i] up to its closing bracket
RECURSIVE ParseValue(_, _)
RECURSIVE ParseItems(_, _, _)
ParseValue(t, i) ==
    IF i > Len(t) THEN ParseFailure
    ELSE IF t[i] \in ObjectTokens
         THEN [ok |-> TRUE, val |-> ObjectOf(t[i]), items |-> <<>>, next |-> i + 1]
    ELSE IF t[i] = NUL
         THEN [ok |-> TRUE, val |-> NullValue, items |-> <<>>, next |-> i + 1]
    ELSE IF t[i] = NUM
         THEN [ok |-> TRUE, val |-> NumberValue, items |-> <<>>, next |-> i + 1]
    ELSE IF t[i] = LBR
         THEN IF i + 1 <= Len(t) /\ t[i + 1] = RBR
              THEN [ok |-> TRUE, val |-> ArrayValue, items |-> <<>>, next |-> i + 2]
              ELSE LET r == ParseItems(t, i + 1, <<>>)
                   IN  IF r.ok THEN [r EXCEPT !.val = ArrayValue] ELSE ParseFailure
    ELSE ParseFailure
ParseItems(t, i, acc) ==
    LET v == ParseValue(t, i)
    IN  IF ~v.ok \/ v.next > Len(t) THEN ParseFailure
        ELSE IF t[v.next] = COMMA THEN ParseItems(t, v.next + 1, Append(acc, v.val))
        ELSE IF t[v.next] = RBR
             THEN [ok |-> TRUE, val |-> NullValue, items |-> Append(acc, v.val),
                   next |-> v.next + 1]
        ELSE ParseFailure

\* JSON.parse(jsonString): the whole text must be one value
JSONParse(text) ==
    LET t == SelectSeq(text, LAMBDA c : ~IsSpace(c))
        v == ParseValue(t, 1)
    IN  IF v.ok /\ v.next = Len(t) + 1 THEN v ELSE ParseFailure

\* main.ts:424-437: [actions, message]
ExtractActions(aiResponse) ==
    LET jsonStart == IndexOf(aiResponse, LBR)
        jsonEnd   == LastIndexOf(aiResponse, RBR)
    IN  IF jsonStart # 0 /\ jsonEnd # 0 /\ jsonEnd > jsonStart
        THEN LET parsed == JSONParse(SubSeq(aiResponse, jsonStart, jsonEnd))
             IN  IF parsed.ok
                 THEN [actions |-> parsed.items, message |-> <<>>]
                 ELSE [actions |-> <<>>, message |-> Trim(aiResponse)]
        ELSE [actions |-> <<>>, message |-> Trim(aiResponse)]

\* the responses of the model: a JSON array of up to MaxActions values, or
\* nothing, between up to MaxAffix tokens of prose, spaces and brackets
AffixTokens == {SP, WORD, LBR, RBR}
Affixes == UNION { [1..n -> AffixTokens] : n \in 0..MaxAffix }

RECURSIVE Render(_)
Render(vals) ==
    IF vals = <<>> THEN <<>>
    ELSE IF Len(vals) = 1 THEN vals
    ELSE <<Head(vals), COMMA>> \o Render(Tail(vals))

Arrays ==
    UNION { { <<LBR>> \o Render(vs) \o <<RBR>> : vs \in [1..n -> ValueTokens] } :
              n \in 1..MaxActions }

AgentResponses ==
    { pre \o core \o post : pre \in Affixes, core \in Arrays \cup {<<>>}, post \in Affixes }

ErrorReply     == <<"Error: Could not get a response from the AI.">>
NoActionsReply == <<"No actions performed.">>
FallbackReply  == <<"No valid actions or message returned.">>

Message(role, content) == [role |-> role, content |-> content]

\* the folder a path lies in, <<>> for the root
Parent(p) ==
    LET slashes == {i \in 1..Len(p) : p[i] = "/"}
    IN  IF slashes = {} THEN <<>>
        ELSE SubSeq(p, 1, (CHOOSE i \in slashes : \A j \in slashes : j <= i) - 1)

Without(v, p) ==
    SelectSeq(v, LAMBDA e : e.path # p /\ ~StartsWith(e.path, p \o <<"/">>))

Replace(v, p, c) ==
    [i \in 1..Len(v) |-> IF v[i].path = p THEN File(p, c) ELSE v[i]]

\* the vault refuses the operation of action a whatever else happens:
\* createFolder and create on a taken path or without a path, create in a
\* folder that does not exist
MustThrow(v, a) ==
    /\ a.type \in {"create_folder", "create_file"}
    /\ \/ ~a.hasPath
       \/ Exists(v, a.path)
       \/ a.type = "create_file" /\ Parent(a.path) # <<>>
            /\ Lookup(v, Parent(a.path)).kind # "folder"

\* the vault after the operation of action a
Effect(v, a) ==
    CASE a.type = "create_folder" -> Append(v, Folder(a.path))
      [] a.type = "create_file"   -> Append(v, File(a.path, a.content))
      [] a.type = "delete_file"   -> Without(v, a.path)
      [] a.type = "delete_folder" -> Without(v, a.path)
      [] a.type = "update_file"   -> Replace(v, a.path, a.content)

SuccessLine(a) ==
    << CASE a.type = "create_folder" -> "Created folder: "
         [] a.type = "create_file"   -> "Created file: "
         [] a.type = "delete_file"   -> "Deleted file: "
         [] a.type = "delete_folder" -> "Deleted folder: "
         [] a.type = "update_file"   -> "Updated file: " >> \o a.path \o <<"\n">>

\* main.ts:470
ErrorLine(a) == <<"Error with action on ">> \o a.path \o <<": ", "Error", "\n">>

AwaitsMutant(v, a) ==
    /\ a.kind = "object"
    /\ \/ a.type \in {"create_folder", "create_file"}
       \/ a.type \in {"delete_file", "update_file", "delete_folder"}
            /\ Exists(v, a.path)

\* main.ts:444-468: whether action a reaches an await of a vault operation
Awaits(v, a) ==
    /\ a.kind = "object"
    /\ \/ a.type \in {"create_folder", "create_file"}
       \/ a.type \in {"delete_file", "update_file"} /\ Lookup(v, a.path).kind = "file"
       \/ a.type = "delete_folder" /\ Lookup(v, a.path).kind = "folder"

\* main.ts:442-472: the loop from action i on, up to its next await.  A null
\* element throws at action.type, and again in the catch at action.path: the
\* callback ends there.
RECURSIVE RunLoop(_, _, _)
RunLoop(actions, i, v) ==
    IF i > Len(actions) THEN [at |-> "end", i |-> Len(actions)]
    ELSE IF actions[i].kind = "null" THEN [at |-> "crash", i |-> i]
    ELSE IF Awaits(v, actions[i]) THEN [at |-> "await", i |-> i]
    ELSE RunLoop(actions, i + 1, v)

IdleTurn ==
    [pc |-> "idle", userMsg |-> <<>>, returned |-> FALSE, aiResponse |-> <<>>,
     branch |-> "", actions |-> <<>>, i |-> 0, summary |-> <<>>, ops |-> 0,
     failures |-> 0, replied |-> FALSE, reply |-> <<>>]

UserMessages == { <<"h", "i">> }

\* main.ts:378-385, 389-416: the message is pushed and the model is asked
StartTurn(t, msg) ==
    /\ ag[t].pc = "idle"
    /\ \A s \in 1..(t - 1) : ag[s].pc # "idle"
    /\ chatHistory' = Append(chatHistory, Message("user", msg))
    /\ ag' = [ag EXCEPT ![t].pc = "await", ![t].userMsg = msg]
    /\ UNCHANGED <<embeddingIndex, vault, clock, rb, qr, cs>>

\* main.ts:417-421
TurnCompletionFails(t) ==
    /\ ag[t].pc = "await"
    /\ chatHistory' = Append(chatHistory, Message("assistant", ErrorReply))
    /\ ag' = [ag EXCEPT ![t].pc = "done", ![t].replied = TRUE, ![t].reply = ErrorReply]
    /\ UNCHANGED <<embeddingIndex, vault, clock, rb, qr, cs>>

\* where the loop stands after RunLoop: at an await, at its end (the summary
\* is pushed, main.ts:473) or ended by a throw
Proceed(t, turn, run, history) ==
    IF run.at = "await"
    THEN /\ ag' = [ag EXCEPT ![t] = [turn EXCEPT !.pc = "exec", !.i = run.i, !.ops = @ + 1]]
         /\ chatHistory' = history
    ELSE IF run.at = "crash"
    THEN /\ ag' = [ag EXCEPT ![t] = [turn EXCEPT !.pc = "crashed", !.i = run.i,
                                       !.failures = @ + 1]]
         /\ chatHistory' = history
    ELSE LET reply == IF turn.summary = <<>> THEN NoActionsReply ELSE turn.summary
         IN  /\ ag' = [ag EXCEPT ![t] = [turn EXCEPT !.pc = "done", !.i = run.i,
                                            !.replied = TRUE, !.reply = reply]]
             /\ chatHistory' = Append(history, Message("assistant", reply))

\* main.ts:416, 424-445, 474-479: the model has answered; the response is
\* searched for an array, and either the loop over the actions begins or a
\* message is pushed
TurnCompletionReturns(t, responses) ==
    /\ ag[t].pc = "await"
    /\ \E aiResponse \in responses :
          LET ex   == ExtractActions(aiResponse)
              turn == [ag[t] EXCEPT !.returned = TRUE, !.aiResponse = aiResponse,
                                    !.actions = ex.actions,
                                    !.branch = IF Len(ex.actions) > 0 THEN "actions"
                                               ELSE "message"]
          IN  IF Len(ex.actions) > 0
              THEN Proceed(t, turn, RunLoop(ex.actions, 1, vault), chatHistory)
              ELSE LET reply == IF ex.message # <<>> THEN ex.message ELSE FallbackReply
                   IN  /\ ag' = [ag EXCEPT ![t] = [turn EXCEPT !.pc = "done",
                                       !.replied = TRUE, !.reply = reply]]
                       /\ chatHistory' = Append(chatHistory, Message("assistant", reply))
    /\ UNCHANGED <<embeddingIndex, vault, clock, rb, qr, cs>>

TurnActionDoneMutant(t) ==
    /\ ag[t].pc = "exec"
    /\ LET a == ag[t].actions[ag[t].i]
       IN  /\ ~MustThrow(vault, a)
           /\ vault' = Effect(vault, a)
           /\ embeddingIndex' = SelectSeq(embeddingIndex, LAMBDA n : Exists(vault', n.path))
           /\ LET turn == [ag[t] EXCEPT !.summary = @ \o SuccessLine(a)]
              IN  Proceed(t, turn, RunLoop(ag[t].actions, ag[t].i + 1, vault'), chatHistory)
    /\ UNCHANGED <<clock, rb, qr, cs>>

\* main.ts:445-472: the vault operation of action i has been carried out; its
\* line is added and the loop goes on
TurnActionDone(t) ==
    /\ ag[t].pc = "exec"
    /\ LET a == ag[t].actions[ag[t].i]
       IN  /\ ~MustThrow(vault, a)
           /\ vault' = Effect(vault, a)
           /\ LET turn == [ag[t] EXCEPT !.summary = @ \o SuccessLine(a)]
              IN  Proceed(t, turn, RunLoop(ag[t].actions, ag[t].i + 1, vault'), chatHistory)
    /\ UNCHANGED <<embeddingIndex, clock, rb, qr, cs>>

\* main.ts:469-471: the vault operation of action i has thrown; the error
\* line is added and the loop goes on
TurnActionFails(t) ==
    /\ ag[t].pc = "exec"
    /\ LET a    == ag[t].actions[ag[t].i]
           turn == [ag[t] EXCEPT !.summary = @ \o ErrorLine(a), !.failures = @ + 1]
       IN  Proceed(t, turn, RunLoop(ag[t].actions, ag[t].i + 1, vault), chatHistory)
    /\ UNCHANGED <<embeddingIndex, vault, clock, rb, qr, cs>>

-----------------------------------------------------------------------------
(* The plugin after onload, and the rebuild command run up to MaxRebuilds  *)
(* times, overlapping or not.                                              *)

Init ==
    /\ embeddingIndex = <<>>
    /\ vault = InitialVault
    /\ clock = 0
    /\ rb = [r \in 1..MaxRebuilds |-> IdleRebuild]
    /\ qr = [q \in 1..MaxQueries |-> IdleQuery]
    /\ cs = IdleCompletion
    /\ chatHistory = <<>>
    /\ ag = [t \in 1..MaxTurns |-> IdleTurn]

RebuildNext ==
    \/ \E r \in 1..MaxRebuilds : StartRebuild(r)
    \/ \E r \in 1..MaxRebuilds : RebuildReadReturns(r)
    \/ \E r \in 1..MaxRebuilds : RebuildReadFails(r)
    \/ \E r \in 1..MaxRebuilds : RebuildEmbedReturns(r)

Next == RebuildNext

Spec == Init /\ [][Next]_vars

-----------------------------------------------------------------------------
(* The commands that read the index, run against one rebuild.               *)

QueryNext ==
    \/ \E q \in 1..MaxQueries, kind \in Kinds : StartQuery(q, kind)
    \/ \E q \in 1..MaxQueries : PromptReturns(q)
    \/ \E q \in 1..MaxQueries : QueryEmbedFails(q)
    \/ \E q \in 1..MaxQueries : QueryEmbedReturns(q)
    \/ \E q \in 1..MaxQueries : QueryCompletionReturns(q)
    \/ \E q \in 1..MaxQueries : QueryCreateReturns(q)
    \/ \E q \in 1..MaxQueries : QueryCreateFails(q)
    \/ \E q \in 1..MaxQueries : QueryOpenReturns(q)

OneRebuildNext ==
    \/ StartRebuild(1)
    \/ RebuildReadReturns(1)
    \/ RebuildReadFails(1)
    \/ RebuildEmbedReturns(1)

NextQuery == QueryNext \/ OneRebuildNext \/ Tick

SpecQuery == Init /\ [][NextQuery]_vars

-----------------------------------------------------------------------------
(* The commands that read the index, run against an index that a rebuild   *)
(* has left: the first n notes of a vault of ordinary notes, each with one *)
(* of the vectors the backend returns.                                     *)

\* entries of the index in this specification
MaxEntries == 4

NotePath(i)    == <<"n", ToString(i)>> \o MdSuffix
NoteContent(i) == Str(MinContentLength, "x")

RankVault == [i \in 1..MaxEntries |-> File(NotePath(i), NoteContent(i))]

RankIndexes ==
    UNION { { [i \in 1..n |-> Entry(NotePath(i), NoteContent(i), e[i])] :
                e \in [1..n -> Vectors] } : n \in 0..MaxEntries }

InitRank ==
    /\ embeddingIndex \in RankIndexes
    /\ vault = RankVault
    /\ clock = 0
    /\ rb = [r \in 1..MaxRebuilds |-> IdleRebuild]
    /\ qr = [q \in 1..MaxQueries |-> IdleQuery]
    /\ cs = IdleCompletion
    /\ chatHistory = <<>>
    /\ ag = [t \in 1..MaxTurns |-> IdleTurn]

SpecRank == InitRank /\ [][QueryNext]_vars

-----------------------------------------------------------------------------
(* One call of the completion client.                                      *)

StreamNext ==
    \/ StartCompletion
    \/ FetchFails
    \/ FetchWithoutBody
    \/ FetchReturns
    \/ ReadChunk
    \/ ReadDone
    \/ ReadFails

SpecStream == Init /\ [][StreamNext]_vars

-----------------------------------------------------------------------------
(* One turn of the agent chat.                                             *)

AgentNext ==
    \/ \E msg \in UserMessages : StartTurn(1, msg)
    \/ TurnCompletionFails(1)
    \/ TurnCompletionReturns(1, AgentResponses)
    \/ TurnActionDone(1)
    \/ TurnActionFails(1)

SpecAgent == Init /\ [][AgentNext]_vars

-----------------------------------------------------------------------------
(* The commands that read the index and an agent turn, after a rebuild of   *)
(* the initial vault has indexed a.md and b.md.                             *)

PathB == <<"b">> \o MdSuffix

IndexedNote(p, e) == Entry(p, Lookup(InitialVault, p).content, e)

RebuiltIndexes ==
    { <<IndexedNote(PathA, ea), IndexedNote(PathB, eb)>> :
        ea \in {<<1, 0>>, <<1, 1>>}, eb \in {<<1, 0>>, <<0, 0>>} }

InitRebuilt ==
    /\ embeddingIndex \in RebuiltIndexes
    /\ vault = InitialVault
    /\ clock = 0
    /\ rb = [r \in 1..MaxRebuilds |-> IdleRebuild]
    /\ qr = [q \in 1..MaxQueries |-> IdleQuery]
    /\ cs = IdleCompletion
    /\ chatHistory = <<>>
    /\ ag = [t \in 1..MaxTurns |-> IdleTurn]

\* responses that act on indexed documents, and one that is a message
FrameResponses ==
    { <<LBR, tok, RBR>> :
        tok \in {"{delete_file a.md}", "{update_file a.md u}", "{create_file a.md c}",
                 "{create_folder z}"} }
    \cup { <<WORD>> }

FrameNext ==
    \/ QueryNext
    \/ \E msg \in UserMessages : StartTurn(1, msg)
    \/ TurnCompletionFails(1)
    \/ TurnCompletionReturns(1, FrameResponses)
    \/ TurnActionDone(1)
    \/ TurnActionFails(1)

SpecFrame == InitRebuilt /\ [][FrameNext]_vars

-----------------------------------------------------------------------------
(* The commands that read the index, run against a rebuild that is invoked  *)
(* when the index has already been built.                                   *)

RaceNext == QueryNext \/ OneRebuildNext

SpecRace == InitRebuilt /\ [][RaceNext]_vars

-----------------------------------------------------------------------------
(* One chat session: every user message starts its own invocation of        *)
(* handleUserMessage, whether or not an earlier one has returned.           *)

ChatResponses ==
    { <<WORD>>, <<LBR, "{create_folder z}", RBR>>, <<LBR, "{delete_file a.md}", RBR>> }

ChatNext ==
    \/ \E t \in 1..MaxTurns, msg \in UserMessages : StartTurn(t, msg)
    \/ \E t \in 1..MaxTurns : TurnCompletionFails(t)
    \/ \E t \in 1..MaxTurns : TurnCompletionReturns(t, ChatResponses)
    \/ \E t \in 1..MaxTurns : TurnActionDone(t)
    \/ \E t \in 1..MaxTurns : TurnActionFails(t)

SpecChat == Init /\ [][ChatNext]_vars

-----------------------------------------------------------------------------
(* Properties of the rebuild *)

\* rebuild r has run to its end, no other rebuild ran while it did, and none
\* has been started since
CompletedAlone(r) ==
    /\ rb[r].pc = "done"
    /\ ~rb[r].overlapped
    /\ \A s \in (r + 1)..MaxRebuilds : rb[s].pc = "idle"

\* what the log says of file i, read against the claim's words
NameAllowed(e) ==
    /\ ~StartsWith(Basename(e.path), RelatedPrefix)
    /\ ~StartsWith(Basename(e.path), AnswerPrefix)
LongEnough(e)  == Len(e.content) >= 50
CallSucceeded(e) == e.embed.status = "returned"
CallGaveVector(e) ==
    e.embed.status = "returned" /\ e.embed.numeric /\ e.embed.value # <<>>

EntriesOf(log) ==
    [i \in 1..Len(log) |-> Entry(log[i].path, log[i].content, log[i].embed.value)]

VisitedAll(r) ==
    /\ Len(rb[r].log) = Len(rb[r].files)
    /\ \A i \in 1..Len(rb[r].files) : rb[r].log[i].path = rb[r].files[i].path

C4_AtomicSwap ==
    [][ embeddingIndex' # embeddingIndex =>
          \E r \in 1..MaxRebuilds : rb[r].pc # "done" /\ rb'[r].pc = "done" ]_vars

\* C5 as written, its safety part: a rebuild that has ended has visited every
\* document of the collection it enumerated.
C5_EndsAfterEveryDocument ==
    \A r \in 1..MaxRebuilds :
        rb[r].pc \in {"done", "aborted"} => VisitedAll(r)

-----------------------------------------------------------------------------
(* Properties of the commands that read the index *)

\* C2: a find-related or ask-question command invoked while the index is empty
\* ends at once with the 'run indexing first' notice: it has issued no
\* embedding call and no completion call and has created no report.
C2_EmptyIndexFailsFirst ==
    /\ [](\A q \in 1..MaxQueries :
            qr[q].outcome = "IndexEmpty" =>
                /\ qr[q].pc = "done"
                /\ qr[q].embedCalls = 0 /\ qr[q].completeCalls = 0
                /\ qr[q].created = 0 /\ qr[q].notices = 1)
    /\ [][ \A q \in 1..MaxQueries :
            qr[q].pc = "idle" /\ qr'[q].pc # "idle" /\ embeddingIndex = <<>> =>
                qr'[q].outcome = "IndexEmpty" /\ vault' = vault ]_vars

\* ask-question was invoked while a rebuild had emptied the index
C2_Witness ==
    /\ qr[1].outcome = "IndexEmpty"
    /\ qr[1].kind = "ask"
    /\ rb[1].pc = "embed"

Position(idx, p) == CHOOSE i \in 1..Len(idx) : idx[i].path = p

\* C3 as written: the ranked result has min(k, n) entries, they are the k
\* highest-scoring entries of the index, in non-increasing order of score,
\* entries of equal score in insertion order.
C3_RankedTopK ==
    \A q \in 1..MaxQueries :
        qr[q].ranked =>
            LET top == qr[q].top
                all == Scored(embeddingIndex, qr[q].queryEmbedding)
                k   == IF qr[q].kind = "related" THEN 10 ELSE 3
                in(p) == \E i \in 1..Len(top) : top[i].path = p
            IN  /\ Len(top) = IF Len(all) < k THEN Len(all) ELSE k
                /\ \A i \in 1..Len(top) :
                      /\ Exists(embeddingIndex, top[i].path)
                      /\ top[i] = all[Position(embeddingIndex, top[i].path)]
                /\ \A i, j \in 1..Len(top) : i < j =>
                      /\ top[i].path # top[j].path
                      /\ ~ScoreLess(top[i].score, top[j].score)
                      /\ (~top[i].score.nan /\ ~top[j].score.nan
                            /\ ~ScoreLess(top[j].score, top[i].score)) =>
                            Position(embeddingIndex, top[i].path)
                                < Position(embeddingIndex, top[j].path)
                /\ \A i \in 1..Len(top), j \in 1..Len(all) :
                      ~in(all[j].path) => ~ScoreLess(top[i].score, all[j].score)

-----------------------------------------------------------------------------
(* Properties of the completion client *)

\* the lines of a body: what lies between its newlines
LinesOf(body) == Split(body)

WellFormed(line) == ~IsBlank(line) /\ ParseLine(line).ok

RECURSIVE Fragments(_)
Fragments(lines) ==
    IF lines = <<>> THEN <<>>
    ELSE (IF WellFormed(Head(lines)) THEN ParseLine(Head(lines)).response ELSE <<>>)
         \o Fragments(Tail(lines))

\* C6 as written: however the body is cut into chunks, complete returns the
\* concatenation of the response fragments of all its lines.
C6_AnyChunking ==
    cs.pc = "returned" => cs.result = Fragments(LinesOf(cs.body))

\* C7 as written: complete never returns an empty string; a response without
\* response content ends in an error.
C7_NoContentIsAnError ==
    cs.pc = "returned" => cs.result # <<>>

-----------------------------------------------------------------------------
(* Properties of the agent turn *)

BracketPair(r) == \E i, j \in 1..Len(r) : i < j /\ r[i] = LBR /\ r[j] = RBR

Bracketed(r) ==
    SubSeq(r, CHOOSE i \in 1..Len(r) : r[i] = LBR /\ \A k \in 1..(i - 1) : r[k] # LBR,
              CHOOSE j \in 1..Len(r) : r[j] = RBR /\ \A k \in (j + 1)..Len(r) : r[k] # RBR)

ParsedArray(r) == IF BracketPair(r) THEN JSONParse(Bracketed(r)) ELSE ParseFailure

\* C9: for every raw response of a turn: without a '[' before a later ']',
\* or when the text from the first '[' to the last ']' is not JSON, no vault
\* operation is performed and the assistant message is the trimmed response
\* (the fallback when that is empty); when that text parses as an array, the
\* turn takes the branch that executes the parsed actions.
C9_ParseOrMessage ==
    \A t \in 1..MaxTurns :
        ag[t].returned =>
            LET r == ag[t].aiResponse
            IN  IF ParsedArray(r).ok
                THEN /\ ag[t].branch = "actions"
                     /\ ag[t].actions = ParsedArray(r).items
                ELSE /\ ag[t].branch = "message"
                     /\ ag[t].ops = 0
                     /\ ag[t].replied
                     /\ ag[t].reply = IF Trim(r) = <<>> THEN FallbackReply ELSE Trim(r)

ErrorLines(summary) ==
    Cardinality({k \in 1..Len(summary) : summary[k] = "Error with action on "})

\* C10: for every parsed action array, once the turn is over every action of
\* the array has been attempted, and each action that failed has added one
\* error line to the summary.
C10_EveryActionAttempted ==
    \A t \in 1..MaxTurns :
        (ag[t].branch = "actions" /\ ag[t].pc \in {"done", "crashed"}) =>
            /\ ag[t].pc = "done"
            /\ ag[t].i = Len(ag[t].actions)
            /\ ErrorLines(ag[t].summary) = ag[t].failures

TurnOver(t) == ag[t].pc \in {"done", "crashed"}

AssistantMessages ==
    Cardinality({k \in 1..Len(chatHistory) : chatHistory[k].role = "assistant"})

\* C11: every turn that is over has appended exactly one assistant message
\* for its user message, whatever the outcome of the turn: there are as many
\* assistant messages in the history as turns that are over, and each such
\* turn has replied.
C11_OneReplyPerTurn ==
    /\ \A t \in 1..MaxTurns : TurnOver(t) => ag[t].pc = "done" /\ ag[t].replied
    /\ AssistantMessages = Cardinality({t \in 1..MaxTurns : TurnOver(t)})

\* C12: when the response parses to an empty action array, the assistant
\* message of the turn is "No actions performed."
C12_EmptyArrayReply ==
    \A t \in 1..MaxTurns :
        (ag[t].returned /\ ParsedArray(ag[t].aiResponse).ok
                        /\ ParsedArray(ag[t].aiResponse).items = <<>>) =>
            ag[t].replied /\ ag[t].reply = NoActionsReply

\* the path of action a resolves, in vault v, to the wrong kind of entity or
\* to nothing
WrongKind(v, a) ==
    /\ a.kind = "object"
    /\ \/ a.type \in {"delete_file", "update_file"} /\ Lookup(v, a.path).kind # "file"
       \/ a.type = "delete_folder" /\ Lookup(v, a.path).kind # "folder"

SummaryLines(summary) ==
    Cardinality({k \in 1..Len(summary) : summary[k] = "\n"})

\* C13: delete_file or update_file on a folder or on nothing, and
\* delete_folder on a file or on nothing, are no-ops: such an action never
\* issues a vault operation; every line of the summary, and every failure,
\* comes from an operation that was issued; and a turn that issued no
\* operation leaves the vault as it was.
C13_WrongKindIsNoOp ==
    /\ \A t \in 1..MaxTurns :
          /\ ag[t].pc = "exec" => ~WrongKind(vault, ag[t].actions[ag[t].i])
          /\ ag[t].pc \in {"exec", "done"} =>
                /\ SummaryLines(ag[t].summary) =
                      IF ag[t].pc = "exec" THEN ag[t].ops - 1 ELSE ag[t].ops
                /\ ErrorLines(ag[t].summary) = ag[t].failures
    /\ (\A t \in 1..MaxTurns : ag[t].ops = 0) => vault = InitialVault

\* a turn over an array of the three kinds of no-op has ended
C13_Witness ==
    /\ ag[1].pc = "done"
    /\ Len(ag[1].actions) = 2
    /\ ag[1].actions[1].type = "delete_file" /\ WrongKind(vault, ag[1].actions[1])
    /\ ag[1].actions[2].type = "delete_folder" /\ WrongKind(vault, ag[1].actions[2])
    /\ ag[1].reply = NoActionsReply
    /\ vault = InitialVault

KnownTypes ==
    {"create_file", "create_folder", "delete_file", "delete_folder", "update_file"}

UnknownTyped(actions) ==
    Cardinality({k \in 1..Len(actions) :
        actions[k].kind = "object" /\ actions[k].type \notin KnownTypes})

\* C19: an action whose type is none of the five known ones is recorded in
\* the summary of the turn: next to the lines of the vault operations that
\* were issued, the summary has one line for each such action.
C19_UnknownTypeRecorded ==
    \A t \in 1..MaxTurns :
        (ag[t].pc = "done" /\ ag[t].branch = "actions") =>
            SummaryLines(ag[t].summary) = ag[t].ops + UnknownTyped(ag[t].actions)

Failed(c) == c.outcome \in {"EmbedFailed", "CompletionFailed"}

\* C14: a query whose embedding call failed, or whose completion call failed,
\* is over: it has issued no further backend call (one embedding call and no
\* completion call, or one of each), it has asked the vault for no report,
\* and the step in which it failed leaves the index and the vault as they
\* were.
C14_FailureAborts ==
    /\ [](\A q \in 1..MaxQueries :
            Failed(qr[q]) =>
                /\ qr[q].pc = "done"
                /\ qr[q].embedCalls = 1
                /\ qr[q].completeCalls = IF qr[q].outcome = "EmbedFailed" THEN 0 ELSE 1
                /\ qr[q].outcome = "CompletionFailed" => qr[q].kind = "ask"
                /\ qr[q].created = 0 /\ qr[q].name = <<>>)
    /\ [][ \A q \in 1..MaxQueries :
            ~Failed(qr[q]) /\ Failed(qr'[q]) =>
                embeddingIndex' = embeddingIndex /\ vault' = vault ]_vars

\* find-related has failed at its embedding call and ask-question at its
\* completion call, each over a non-empty index
C14_Witness ==
    \E q \in 1..MaxQueries :
        /\ embeddingIndex # <<>>
        /\ \/ qr[q].outcome = "EmbedFailed" /\ qr[q].kind = "related"
                /\ qr[q].query = LongQuery
           \/ qr[q].outcome = "CompletionFailed"

\* C15: the index is mutated only by rebuild: every step in which no rebuild
\* moves, be it a step of find-related, of ask-question or of an agent turn,
\* leaves the contents and the order of the index unchanged.
C15_OnlyRebuildMutates ==
    [][ rb' = rb => embeddingIndex' = embeddingIndex ]_vars

\* an agent turn has deleted or rewritten an indexed document and a query has
\* written its report; the index still holds the entry as it was built
C15_Witness ==
    /\ ag[1].pc = "done"
    /\ ag[1].summary # <<>>
    /\ Lookup(vault, PathA) # Lookup(InitialVault, PathA)
    /\ \E q \in 1..MaxQueries : qr[q].outcome = "Written"
    /\ \E k \in 1..Len(embeddingIndex) :
          embeddingIndex[k] = IndexedNote(PathA, embeddingIndex[k].embedding)

\* C16: in every reachable state all entries of the index have embeddings of
\* one length, and none has an empty embedding.
C16_OneEmbeddingLength ==
    \A i, j \in 1..Len(embeddingIndex) :
        /\ Len(embeddingIndex[i].embedding) = Len(embeddingIndex[j].embedding)
        /\ Len(embeddingIndex[i].embedding) > 0

FailedEmbedCalls(log) ==
    Cardinality({k \in 1..Len(log) : log[k].embed.status = "threw"})

\* C17: every failed embedding call is notified exactly once by the client
\* and its caller together: a rebuild that is done has raised its two
\* progress notices and one notice for each failed call, and a query whose
\* embedding call failed has raised one notice.
C17_OneNoticePerFailure ==
    /\ \A r \in 1..MaxRebuilds :
          rb[r].pc = "done" => rb[r].notices = 2 + FailedEmbedCalls(rb[r].log)
    /\ \A q \in 1..MaxQueries :
          qr[q].outcome = "EmbedFailed" => qr[q].notices = 1

\* C18: every score that the ranking has sorted on, and that a report shows,
\* is a defined number in [-1, 1].
C18_ScoresDefined ==
    \A q \in 1..MaxQueries :
        qr[q].ranked =>
            \A k \in 1..Len(qr[q].top) :
                LET s == qr[q].top[k].score
                IN  ~s.nan /\ s.num * s.num <= s.den

\* C20: in every reachable state no two entries of the index have the same
\* path.
C20_UniquePaths ==
    \A i, j \in 1..Len(embeddingIndex) :
        embeddingIndex[i].path = embeddingIndex[j].path => i = j

\* C21: whenever find-related or ask-question has reached its ranking step,
\* the index it ranked was not empty: the ranked result has at least one
\* note, and no report with zero ranked notes is handed to the vault.
C21_RankedIndexNonEmpty ==
    \A q \in 1..MaxQueries :
        qr[q].ranked => qr[q].top # <<>>

\* C22: the chat history strictly alternates user, assistant, user,
\* assistant: no user message is appended while an earlier turn is still
\* awaiting the model or executing, and the i-th assistant message is the
\* reply to the i-th user message.
C22_StrictAlternation ==
    /\ \A k \in 1..Len(chatHistory) :
          chatHistory[k].role = IF k % 2 = 1 THEN "user" ELSE "assistant"
    /\ \A t \in 1..MaxTurns :
          ag[t].replied =>
              /\ 2 * t <= Len(chatHistory)
              /\ chatHistory[2 * t] = Message("assistant", ag[t].reply)

====
